---- MODULE Spec2Model ----
(***************************************************************************)
(* A model of the link checker of src/index.ts: LinkChecker.check seeds a  *)
(* p-queue with one crawl task for the target, every crawl task may add    *)
(* further crawl tasks for the links of its page, and check returns once   *)
(* the queue is idle.                                                      *)
(*                                                                         *)
(* Strings that the program takes apart (URLs, the target, skip patterns,  *)
(* raw link texts) are sequences of tokens, so that startsWith, the URL    *)
(* parser and the pattern match are computed, not assumed.                 *)
(* "http://a.test/p1" is <<"http:", "a.test", "/p1">>.                     *)
(*                                                                         *)
(* One action is one run-to-completion stretch of the JavaScript event     *)
(* loop: the code between two awaits runs without interleaving.            *)
(***************************************************************************)
EXTENDS Integers, Sequences, FiniteSets, Bags, TLC

VARIABLES
    options,     \* the CheckOptions object the caller passed (check mutates it)
    subscriber,  \* the urls on whose 'link' event the attached listener throws
    phase,       \* where check() is: "new", "starting", "crawling", "returned", "rejected", "crashed"
    httpServer,  \* the static server: "none", "listening", "destroyed"
    destroyed,   \* how many times server.destroy() was called
    queue,       \* p-queue: the tasks held, not started
    running,     \* p-queue: the tasks started and not yet settled (pendingCount)
    idle,        \* whether the promise of queue.onIdle() has been resolved
    cache,       \* the Set of hrefs already touched
    results,     \* the results array
    events,      \* the 'link' events delivered to the listener, in order
    scanned,     \* the hrefs whose body was handed to getLinks ('pagestart')
    requests,    \* the bag of <<href, method>> requests issued
    consulted,   \* the hrefs the skip specification was evaluated on
    web,         \* the responses the servers on the network have given so far
    nextId,      \* the number of tasks added to the queue so far
    port,        \* the port check() picked for the static server, "" before
    runtime,     \* what Node does with an unhandled rejection: "unknown", "warn", "throw"
    given,       \* the value of the options object when the caller passed it
    submitted,   \* the bag of hrefs a task was added to the queue for
    looked,      \* the keys the cache was asked for (cache.has)
    returned     \* the CrawlResult check() resolved with, <<>> before

vars == <<options, subscriber, phase, httpServer, destroyed, queue, running, idle,
          cache, results, events, scanned, requests, consulted, web, nextId, port,
          runtime, given, submitted, looked, returned>>

----------------------------------------------------------------------------
\* Bounds of the model

\* The largest concurrency limit the caller configures.
MaxConcurrency == 2

\* The concurrency of the queue when the caller configures none.
DefaultConcurrency == 100

\* The status field of a LinkResult that was built without one.
NoStatus == -1

\* The parent field of the root's LinkResult (no parent).
NoParent == <<>>

----------------------------------------------------------------------------
\* URLs

\* The tokens that are a path (they start with "/").
PathTokens == {"/", "/p1", "/secret", "/x", "/y"}

\* WHATWG special schemes the program meets: their URLs need a host.
SpecialSchemes == {"http:", "https:"}

Schemes == SpecialSchemes \cup {"mailto:"}

\* url.href: the serialisation of a parsed URL.
Href(u) == <<u.protocol>> \o u.host \o <<u.pathname>>

NoURL == [protocol |-> "", host |-> <<>>, pathname |-> ""]

IsPathToken(x) == x \in PathTokens

IsHostToken(x) == x \notin PathTokens

\* new URL(s): the parser. An http(s) URL without a host does not parse; a
\* missing path is "/"; a non-special scheme has no host and an opaque path.
ParseURL(s) ==
    IF Len(s) = 0 \/ s[1] \notin Schemes THEN NoURL
    ELSE IF s[1] \in SpecialSchemes
    THEN LET rest == Tail(s)
             h == SelectSeq(rest, IsHostToken)
             p == SelectSeq(rest, IsPathToken)
         IN IF Len(h) = 0 THEN NoURL
            ELSE [protocol |-> s[1], host |-> h,
                  pathname |-> IF Len(p) = 0 THEN "/" ELSE p[1]]
    ELSE [protocol |-> s[1], host |-> <<>>,
          pathname |-> IF Len(s) > 1 THEN s[2] ELSE ""]

\* new URL(raw, base): a raw link that is a path is resolved against the base.
ResolveURL(raw, base) ==
    IF Len(raw) > 0 /\ raw[1] \in PathTokens
    THEN [protocol |-> base.protocol, host |-> base.host, pathname |-> raw[1]]
    ELSE ParseURL(raw)

\* String.prototype.startsWith
StartsWith(s, prefix) ==
    /\ Len(prefix) <= Len(s)
    /\ SubSeq(s, 1, Len(prefix)) = prefix

\* new RegExp(pattern).test(s) for a pattern without metacharacters: the
\* pattern occurs somewhere in s.
RegExpTest(pattern, s) ==
    \E i \in 0..(Len(s) - Len(pattern)) :
        SubSeq(s, i + 1, i + Len(pattern)) = pattern

----------------------------------------------------------------------------
\* The network: what the servers hold and answer

\* The target the caller passes: a URL, or a path on disk.
HttpTarget == <<"http:", "a.test">>

DiskTarget == <<"docs">>

\* The hosts the documentation tree is served from: the public site, or the
\* static server of check() on localhost.
LocalHosts == {<<"localhost", ":", p>> : p \in {"5000", "6000", "8080"}}

SiteHosts == {<<"a.test">>} \cup LocalHosts

\* The raw link texts in the body the server returns for a URL. The public
\* site is larger than the tree on disk.
Body(u) ==
    IF u.host = <<"a.test">> /\ u.pathname = "/"
    THEN << <<"/p1">>, <<"http:">>, <<"mailto:", "x@y.com">>, <<"/secret">>,
            <<"http:", "b.test", "/x">>, <<"http:", "a.test", ".evil", "/">>,
            <<"/p1">> >>
    ELSE IF u.host = <<"a.test">> /\ u.pathname = "/p1"
    THEN << <<"/">>, <<"http:", "b.test", "/x">>, <<"/y">> >>
    ELSE IF u.host \in LocalHosts /\ u.pathname = "/"
    THEN << <<"/p1">>, <<"http:", "b.test", "/x">>, <<"/p1">> >>
    ELSE IF u.host \in LocalHosts /\ u.pathname = "/p1"
    THEN << <<"/">>, <<"http:">> >>
    ELSE IF u.host = <<"b.test">> /\ u.pathname = "/x"
    THEN << <<"/y">> >>
    ELSE IF u.host = <<"a.test", ".evil">> /\ u.pathname = "/"
    THEN << <<"/y">> >>
    ELSE << >>

\* What a request can come back with: a status and whether the content type
\* is HTML; status 0 stands for the request promise rejecting (DNS, TLS, ...).
Responses ==
    { [status |-> 200, html |-> TRUE], [status |-> 200, html |-> FALSE],
      [status |-> 404, html |-> TRUE], [status |-> 405, html |-> FALSE],
      [status |-> 0, html |-> FALSE] }

\* What each server can answer: the target's root and b.test anything, the
\* page /p1 is there, missing or unreachable, the other servers are stable.
ServerResponses(u) ==
    IF u.host \in SiteHosts /\ u.pathname = "/" THEN Responses
    ELSE IF u.host \in SiteHosts /\ u.pathname = "/p1"
    THEN {r \in Responses : r.html = (r.status # 0) /\ r.status # 405}
    ELSE IF u.host \in SiteHosts THEN {[status |-> 200, html |-> FALSE]}
    ELSE IF u.host = <<"b.test">> THEN Responses
    ELSE {[status |-> 200, html |-> TRUE]}

\* The answers a server may give to a request: the one it gave before to the
\* same request, any of its own otherwise (its answers are fixed during a run).
Answers(w, u, method) ==
    IF \E a \in w : a.href = Href(u) /\ a.method = method
    THEN {a.res : a \in {b \in w : b.href = Href(u) /\ b.method = method}}
    ELSE ServerResponses(u)

\* Checks to see if a given source is HTML.
isHtml(res) == res.html

\* getLinks(data, baseUrl): each link of the page with its raw text and, when
\* it resolves against the base, its URL.
getLinks(data, base) ==
    [i \in 1..Len(data) |-> [link |-> data[i], url |-> ResolveURL(data[i], base)]]

----------------------------------------------------------------------------
\* The machine state the crawl operators transform

Machine ==
    [options |-> options, queue |-> queue, running |-> running, idle |-> idle,
     cache |-> cache, results |-> results, events |-> events,
     scanned |-> scanned, requests |-> requests, consulted |-> consulted,
     nextId |-> nextId, submitted |-> submitted, looked |-> looked]

Commit(m) ==
    /\ options' = m.options
    /\ queue' = m.queue
    /\ running' = m.running
    /\ idle' = m.idle
    /\ cache' = m.cache
    /\ results' = m.results
    /\ events' = m.events
    /\ scanned' = m.scanned
    /\ requests' = m.requests
    /\ consulted' = m.consulted
    /\ nextId' = m.nextId
    /\ submitted' = m.submitted
    /\ looked' = m.looked

\* concurrency: options.concurrency || 100 (0 stands for none configured)
Concurrency(opts) ==
    IF opts.concurrency = 0 THEN DefaultConcurrency ELSE opts.concurrency

\* this.emit('link', r) with the listener attached: whether the listener throws.
ListenerThrows(r) == r.url \in subscriber

\* Record without the emit: the result is pushed and no event is sent.
RecordNoEmit(m, r) == [m EXCEPT !.results = Append(@, r)]

\* opts.results.push(r); this.emit('link', r): the listener sees the event
\* even when it throws while handling it.
Record(m, r) ==
    [m EXCEPT !.results = Append(@, r), !.events = Append(@, r)]

\* The task t is now at pc: "skipfn", "request", "retry" (awaiting), or
\* "returned", "threw" (crawl's promise settled, the queue not yet told).
Settle(m, t, pc) ==
    [m EXCEPT !.running = {x \in @ : x.id # t.id} \cup {[t EXCEPT !.pc = pc]}]

\* A result built for a URL that is not requested.
Skipped(m, t, status) ==
    LET r == [url |-> Href(t.url), status |-> status, state |-> "SKIPPED",
              parent |-> t.parent]
    IN Settle(Record(m, r), t, IF ListenerThrows(r) THEN "threw" ELSE "returned")

\* gaxios.request({method, url}): the request is on the wire.
IssueRequest(m, t, method, pc) ==
    Settle([m EXCEPT !.requests = @ (+) SetToBag({<<Href(t.url), method>>})], t, pc)

\* crawl, from the array of skip patterns to the first request.
CrawlFilter(m, t) ==
    LET method == IF t.crawl THEN "GET" ELSE "HEAD"
        skip == m.options.linksToSkip
    IN IF skip.type = "array"
       THEN LET m1 == [m EXCEPT !.consulted = @ \cup {Href(t.url)}]
            IN IF \E i \in 1..Len(skip.patterns) :
                      RegExpTest(skip.patterns[i], Href(t.url))
               THEN Skipped(m1, t, NoStatus)
               ELSE IssueRequest(m1, t, method, "request")
       ELSE IssueRequest(m, t, method, "request")

\* CrawlStart without the cache test: a task acts on its URL whether or not
\* another task has touched it.
CrawlStartNoCacheTest(m, t) ==
    LET m1 == [m EXCEPT !.cache = @ \cup {Href(t.url)},
                        !.looked = @ \cup {Href(t.url)}]
    IN IF t.url.protocol # "http:" /\ t.url.protocol # "https:"
       THEN Skipped(m1, t, 0)
       ELSE IF m1.options.linksToSkip.type = "function"
       THEN Settle([m1 EXCEPT !.consulted = @ \cup {Href(t.url)}], t, "skipfn")
       ELSE CrawlFilter(m1, t)

\* CrawlStart without the protocol test: every URL goes to the skip filter.
CrawlStartNoProtocolTest(m, t) ==
    IF Href(t.url) \in m.cache
    THEN Settle([m EXCEPT !.looked = @ \cup {Href(t.url)}], t, "returned")
    ELSE LET m1 == [m EXCEPT !.cache = @ \cup {Href(t.url)},
                             !.looked = @ \cup {Href(t.url)}]
         IN IF m1.options.linksToSkip.type = "function"
            THEN Settle([m1 EXCEPT !.consulted = @ \cup {Href(t.url)}], t, "skipfn")
            ELSE CrawlFilter(m1, t)

\* crawl, from its first line to its first await.
CrawlStart(m, t) ==
    IF Href(t.url) \in m.cache
    THEN Settle([m EXCEPT !.looked = @ \cup {Href(t.url)}], t, "returned")
    ELSE LET m1 == [m EXCEPT !.cache = @ \cup {Href(t.url)},
                             !.looked = @ \cup {Href(t.url)}]
         IN IF t.url.protocol # "http:" /\ t.url.protocol # "https:"
            THEN Skipped(m1, t, 0)
            ELSE IF m1.options.linksToSkip.type = "function"
            THEN Settle([m1 EXCEPT !.consulted = @ \cup {Href(t.url)}], t, "skipfn")
            ELSE CrawlFilter(m1, t)

\* TryToStartAnother without the test for a free slot: the head of the queue
\* is started whatever is running.
TryToStartAnotherNoLimit(m) ==
    IF Len(m.queue) = 0
    THEN IF m.running = {} THEN [m EXCEPT !.idle = TRUE] ELSE m
    ELSE LET t == Head(m.queue)
         IN CrawlStart([m EXCEPT !.queue = Tail(@)], t)

\* TryToStartAnother with idle resolved as soon as nothing is queued, whatever
\* is still running.
TryToStartAnotherIdleOnEmptyQueue(m) ==
    IF Len(m.queue) = 0
    THEN [m EXCEPT !.idle = TRUE]
    ELSE IF Cardinality(m.running) < Concurrency(m.options)
    THEN LET t == Head(m.queue)
         IN CrawlStart([m EXCEPT !.queue = Tail(@)], t)
    ELSE m

\* p-queue _tryToStartAnother: resolve idle when nothing is queued or
\* pending, else start the head of the queue when a slot is free. The job
\* runs crawl up to its first await before add() or _next() returns.
TryToStartAnother(m) ==
    IF Len(m.queue) = 0
    THEN IF m.running = {} THEN [m EXCEPT !.idle = TRUE] ELSE m
    ELSE IF Cardinality(m.running) < Concurrency(m.options)
    THEN LET t == Head(m.queue)
         IN CrawlStart([m EXCEPT !.queue = Tail(@)], t)
    ELSE m

\* QueueAdd with a queue that discards a task added while no slot is free.
QueueAddDropWhenFull(m, url, parent, crawl) ==
    LET t == [id |-> m.nextId + 1, url |-> url, parent |-> parent,
              crawl |-> crawl, pc |-> "queued"]
    IN IF Cardinality(m.running) < Concurrency(m.options)
       THEN TryToStartAnother([m EXCEPT !.nextId = @ + 1, !.queue = Append(@, t),
                                        !.submitted = @ (+) SetToBag({Href(url)})])
       ELSE m

\* queue.add(async () => { await this.crawl({url, parent, crawl, ...}) })
QueueAdd(m, url, parent, crawl) ==
    LET t == [id |-> m.nextId + 1, url |-> url, parent |-> parent,
              crawl |-> crawl, pc |-> "queued"]
    IN TryToStartAnother([m EXCEPT !.nextId = @ + 1, !.queue = Append(@, t),
                                   !.submitted = @ (+) SetToBag({Href(url)})])

\* ShouldCrawl without the recursion flag: every child under the target on
\* the target's host is scanned.
ShouldCrawlWithoutFlag(opts, url) ==
    LET crawl == StartsWith(Href(url), opts.path)
        pathUrl == ParseURL(opts.path)
    IN IF crawl /\ pathUrl # NoURL THEN url.host = pathUrl.host ELSE crawl

\* ShouldCrawl without the host test.
ShouldCrawlAnyHost(opts, url) == opts.recurse /\ StartsWith(Href(url), opts.path)

\* Whether a child is scanned for links itself: recursion is on, the href
\* starts with the target string and the host is the target's host.
ShouldCrawl(opts, url) ==
    LET crawl == opts.recurse /\ StartsWith(Href(url), opts.path)
        pathUrl == ParseURL(opts.path)
    IN IF crawl /\ pathUrl # NoURL THEN url.host = pathUrl.host ELSE crawl

\* The loop over the links of the page of t.
RECURSIVE ProcessLinks(_, _, _)
ProcessLinks(m, t, urlResults) ==
    IF Len(urlResults) = 0
    THEN Settle(m, t, "returned")
    ELSE LET result == Head(urlResults)
         IN IF result.url = NoURL
            THEN LET r == [url |-> result.link, status |-> 0, state |-> "BROKEN",
                           parent |-> Href(t.url)]
                 IN IF ListenerThrows(r)
                    THEN Settle(Record(m, r), t, "threw")
                    ELSE ProcessLinks(Record(m, r), t, Tail(urlResults))
            ELSE LET crawl == ShouldCrawl(m.options, result.url)
                     m0 == [m EXCEPT !.looked = @ \cup {Href(result.url)}]
                     m1 == IF Href(result.url) \notin m.cache
                           THEN QueueAdd(m0, result.url, Href(t.url), crawl)
                           ELSE m0
                 IN ProcessLinks(m1, t, Tail(urlResults))

\* Classify with the page's links processed before its own result is recorded.
ClassifyChildrenFirst(m, t, res) ==
    LET r == [url |-> Href(t.url), status |-> res.status,
              state |-> IF res.status >= 200 /\ res.status < 300
                        THEN "OK" ELSE "BROKEN",
              parent |-> t.parent]
        shouldRecurse == res.status # 0 /\ isHtml(res)
        m1 == IF t.crawl /\ shouldRecurse
              THEN ProcessLinks([m EXCEPT !.scanned = @ \cup {Href(t.url)}], t,
                                getLinks(Body(t.url), t.url))
              ELSE m
    IN Settle(Record(m1, r), t, IF ListenerThrows(r) THEN "threw" ELSE "returned")

\* crawl, from the response (or the request's failure) to its end.
Classify(m, t, res) ==
    LET r == [url |-> Href(t.url), status |-> res.status,
              state |-> IF res.status >= 200 /\ res.status < 300
                        THEN "OK" ELSE "BROKEN",
              parent |-> t.parent]
        shouldRecurse == res.status # 0 /\ isHtml(res)
        m1 == Record(m, r)
    IN IF ListenerThrows(r)
       THEN Settle(m1, t, "threw")
       ELSE IF t.crawl /\ shouldRecurse
       THEN ProcessLinks([m1 EXCEPT !.scanned = @ \cup {Href(t.url)}], t,
                         getLinks(Body(t.url), t.url))
       ELSE Settle(m1, t, "returned")

----------------------------------------------------------------------------
\* The inputs of a run

SecretPattern == <<"a.test", "/secret">>

SecretPath == <<"/secret">>

PagePath == <<"/p1">>

MailPattern == <<"x@y.com">>

\* linksToSkip: absent, an array of patterns, or an async predicate. The
\* predicate resolves true on the hrefs its patterns match and rejects on
\* the hrefs its rejects match.
SkipSpecs ==
    { [type |-> "undefined", patterns |-> << >>, rejects |-> << >>],
      [type |-> "array", patterns |-> <<SecretPattern, MailPattern>>, rejects |-> << >>],
      [type |-> "function", patterns |-> <<SecretPath, MailPattern>>, rejects |-> << >>],
      [type |-> "function", patterns |-> <<SecretPath>>, rejects |-> <<PagePath>>] }

\* The ports Math.random() can lead to: 5000 + Math.round(Math.random() * 1000).
RandomPorts == {"5000", "6000"}

\* The concurrency the caller configures: none (0), a limit, or a number
\* that is no limit (-1).
Concurrencies == (-1)..MaxConcurrency

OptionsSet ==
    [path : {HttpTarget}, port : {""}, concurrency : Concurrencies,
     recurse : BOOLEAN, linksToSkip : SkipSpecs]
    \cup
    [path : {DiskTarget}, port : {"", "8080"}, concurrency : Concurrencies,
     recurse : BOOLEAN, linksToSkip : SkipSpecs]

\* The listener attached to 'link': the urls on whose event it throws.
Subscribers == { {}, {<<"http:">>}, {<<"http:", "b.test", "/x">>} }

Init ==
    /\ options \in OptionsSet
    /\ subscriber \in Subscribers
    /\ phase = "new"
    /\ httpServer = "none"
    /\ destroyed = 0
    /\ queue = << >>
    /\ running = {}
    /\ idle = FALSE
    /\ cache = {}
    /\ results = << >>
    /\ events = << >>
    /\ scanned = {}
    /\ requests = EmptyBag
    /\ consulted = {}
    /\ web = {}
    /\ nextId = 0
    /\ port = ""
    /\ runtime = "unknown"
    /\ given = options
    /\ submitted = EmptyBag
    /\ looked = {}
    /\ returned = << >>

----------------------------------------------------------------------------
\* check()

\* check, from the new PQueue to the await of queue.onIdle().
Seed(m) == QueueAdd(m, ParseURL(m.options.path), NoParent, TRUE)

\* options.path.startsWith('http')
StartsWithHttp(path) == Len(path) > 0 /\ path[1] \in {"http:", "https:"}

\* options.linksToSkip = options.linksToSkip || []
DefaultSkip(opts) ==
    IF opts.linksToSkip.type = "undefined"
    THEN [opts EXCEPT !.linksToSkip = [type |-> "array", patterns |-> << >>,
                                       rejects |-> << >>]]
    ELSE opts

\* new PQueue({concurrency}): p-queue throws a TypeError unless the
\* concurrency is a number from 1 and up.
QueueConstructs(opts) == Concurrency(opts) >= 1

\* check, from the new PQueue on: check() rejects when the queue cannot be
\* constructed, else the queue is seeded and check() awaits queue.onIdle().
StartCrawl(m) == IF QueueConstructs(m.options) THEN Seed(m) ELSE m

PhaseAfterStart(m) == IF QueueConstructs(m.options) THEN "crawling" ELSE "rejected"

\* check(options) is called: up to the await of startWebServer for a path on
\* disk, up to the await of queue.onIdle() for a URL.
Check ==
    /\ phase = "new"
    /\ LET m == [Machine EXCEPT !.options = DefaultSkip(options)]
       IN IF ~StartsWithHttp(options.path)
          THEN /\ \E p \in (IF options.port = "" THEN RandomPorts ELSE {options.port}) :
                    port' = p
               /\ phase' = "starting"
               /\ Commit(m)
          ELSE /\ phase' = PhaseAfterStart(m)
               /\ port' = port
               /\ Commit(StartCrawl(m))
    /\ UNCHANGED <<subscriber, httpServer, destroyed, web, runtime, given, returned>>

\* startWebServer resolves: the server listens, the target becomes its URL
\* and the queue is seeded.
ServerListening ==
    /\ phase = "starting"
    /\ httpServer' = "listening"
    /\ LET m == [Machine EXCEPT !.options.path = <<"http:", "localhost", ":", port>>]
       IN /\ phase' = PhaseAfterStart(m)
          /\ Commit(StartCrawl(m))
    /\ UNCHANGED <<subscriber, destroyed, web, port, runtime, given, returned>>

\* startWebServer rejects (the port is taken): check() rejects.
ServerError ==
    /\ phase = "starting"
    /\ phase' = "rejected"
    /\ UNCHANGED <<options, subscriber, httpServer, destroyed, queue, running, idle,
                   cache, results, events, scanned, requests, consulted, web,
                   nextId, port, runtime, given, submitted, looked, returned>>

\* Promise continuations run before any I/O callback: a crawl promise that
\* has settled tells the queue, and a resolved onIdle() resumes check(),
\* before the next response is delivered.
MicrotaskPending ==
    \/ \E t \in running : t.pc \in {"returned", "threw"}
    \/ phase = "crawling" /\ idle

\* The skip predicate's promise settles for the task t.
SkipResolves(t) ==
    /\ phase # "crashed"
    /\ t \in running /\ t.pc = "skipfn"
    /\ LET skip == options.linksToSkip
           href == Href(t.url)
           rejects == \E i \in 1..Len(skip.rejects) : RegExpTest(skip.rejects[i], href)
           matches == \E i \in 1..Len(skip.patterns) : RegExpTest(skip.patterns[i], href)
       IN Commit(IF rejects THEN Settle(Machine, t, "threw")
                 ELSE IF matches THEN Skipped(Machine, t, NoStatus)
                 ELSE CrawlFilter(Machine, t))
    /\ UNCHANGED <<subscriber, phase, httpServer, destroyed, web, port, runtime, given,
                   returned>>

\* OnResponse with a request that failed tried again, like a 405.
OnResponseRetryOnError(m, t, res) ==
    IF res.status = 405 \/ res.status = 0
    THEN IssueRequest(m, t, "GET", "retry")
    ELSE Classify(m, t, res)

\* OnResponse without the retry: a 405 is classified like any other status.
OnResponseNoRetry(m, t, res) == Classify(m, t, res)

\* crawl, resumed with the answer to its first request: if we got an HTTP
\* 405, the server may not like HEAD. GET instead!
OnResponse(m, t, res) ==
    IF res.status = 405
    THEN IssueRequest(m, t, "GET", "retry")
    ELSE Classify(m, t, res)

\* The first request of the task t is answered (or fails).
Response(t) ==
    /\ phase # "crashed" /\ ~MicrotaskPending
    /\ t \in running /\ t.pc = "request"
    /\ LET method == IF t.crawl THEN "GET" ELSE "HEAD"
       IN \E res \in Answers(web, t.url, method) :
            /\ web' = web \cup {[href |-> Href(t.url), method |-> method, res |-> res]}
            /\ Commit(OnResponse(Machine, t, res))
    /\ UNCHANGED <<subscriber, phase, httpServer, destroyed, port, runtime, given, returned>>

\* The GET retry of the task t is answered (or fails).
RetryResponse(t) ==
    /\ phase # "crashed" /\ ~MicrotaskPending
    /\ t \in running /\ t.pc = "retry"
    /\ \E res \in Answers(web, t.url, "GET") :
         /\ web' = web \cup {[href |-> Href(t.url), method |-> "GET", res |-> res]}
         /\ Commit(Classify(Machine, t, res))
    /\ UNCHANGED <<subscriber, phase, httpServer, destroyed, port, runtime, given, returned>>

\* p-queue _next: the task's slot is freed and the next held task starts.
Next_(m, t) == TryToStartAnother([m EXCEPT !.running = @ \ {t}])

\* The promise of a crawl that returned resolves the task.
TaskResolves(t) ==
    /\ phase # "crashed"
    /\ t \in running /\ t.pc = "returned"
    /\ Commit(Next_(Machine, t))
    /\ UNCHANGED <<subscriber, phase, httpServer, destroyed, web, port, runtime, given,
                   returned>>

\* The promise of a crawl that threw rejects the promise of queue.add(),
\* which nobody handles: Node warns (up to 14) or throws (from 15), and the
\* process ends.
TaskRejects(t) ==
    /\ phase # "crashed"
    /\ t \in running /\ t.pc = "threw"
    /\ Commit(Next_(Machine, t))
    /\ \E mode \in (IF runtime = "unknown" THEN {"warn", "throw"} ELSE {runtime}) :
         /\ runtime' = mode
         /\ phase' = IF mode = "throw" THEN "crashed" ELSE phase
    /\ UNCHANGED <<subscriber, httpServer, destroyed, web, port, given, returned>>

\* Passed with the test on OK results instead of BROKEN ones.
PassedAnyOk(links) ==
    Cardinality({i \in 1..Len(links) : links[i].state = "OK"}) > 0

\* passed: results.filter(x => x.state === LinkState.BROKEN).length === 0
Passed(links) ==
    Cardinality({i \in 1..Len(links) : links[i].state = "BROKEN"}) = 0

\* queue.onIdle() has resolved: the result is built, the server destroyed.
CheckReturns ==
    /\ phase = "crawling" /\ idle
    /\ returned' = [links |-> results, passed |-> Passed(results)]
    /\ httpServer' = IF httpServer = "listening" THEN "destroyed" ELSE httpServer
    /\ destroyed' = IF httpServer = "listening" THEN destroyed + 1 ELSE destroyed
    /\ phase' = "returned"
    /\ UNCHANGED <<options, subscriber, queue, running, idle, cache, results, events,
                   scanned, requests, consulted, web, nextId, port, runtime, given,
                   submitted, looked>>

Next ==
    \/ Check
    \/ ServerListening
    \/ ServerError
    \/ \E t \in running : SkipResolves(t)
    \/ \E t \in running : Response(t)
    \/ \E t \in running : RetryResponse(t)
    \/ \E t \in running : TaskResolves(t)
    \/ \E t \in running : TaskRejects(t)
    \/ CheckReturns

Spec == Init /\ [][Next]_vars

\* The event loop keeps running: a step that can be taken (a continuation
\* that is ready, an answer that has arrived) is taken.
FairSpec == Spec /\ WF_vars(Next)

----------------------------------------------------------------------------
\* What the claims speak of

\* The URL of the root task: new URL(options.path)
RootURL == ParseURL(options.path)

Started == phase \in {"crawling", "returned", "crashed"}

\* The positions of the LinkResults recorded for a url.
ResultsFor(h) == {i \in 1..Len(results) : results[i].url = h}

Count(h) == Cardinality(ResultsFor(h))

\* The resolvable links extracted from the page at href h.
LinksOf(h) ==
    LET links == getLinks(Body(ParseURL(h)), ParseURL(h))
    IN {Href(links[i].url) : i \in {j \in 1..Len(links) : links[j].url # NoURL}}

\* The URLs discovered so far: the root and every resolvable link extracted
\* from a scanned page.
Discovered ==
    IF Started THEN {Href(RootURL)} \cup UNION {LinksOf(h) : h \in scanned} ELSE {}

IsHttp(h) == h[1] \in SpecialSchemes

Requested(h, method) == CopiesIn(<<h, method>>, requests)

Answered(h, method) == {a.res : a \in {b \in web : b.href = h /\ b.method = method}}

\* At no moment do the results hold two LinkResults for one resolvable URL.
NoDuplicateResult == \A h \in cache \cup Discovered : Count(h) <= 1

\* C1: at no moment do the results hold two LinkResults for the same
\* resolvable URL, and when check() returns they hold exactly one for every
\* URL discovered during the run.
C1_ExactlyOnePerDiscovered ==
    /\ NoDuplicateResult
    /\ phase = "returned" => \A h \in Discovered : Count(h) = 1

\* C2: when check() has returned the queue is empty, no crawl task is
\* running, and the results are the ones it returned: nothing is appended
\* after the return.
C2_ReturnsWhenIdle ==
    phase = "returned" =>
        /\ Len(queue) = 0
        /\ running = {}
        /\ results = returned.links

\* A run that returned, in which a task submitted by a child page (not by the
\* root) produced a result.
C2_Witness ==
    /\ phase = "returned"
    /\ \E i \in 1..Len(results) :
          results[i].parent \notin {NoParent, Href(RootURL)}

\* C3: for every completed run, passed is true if and only if no LinkResult
\* of the returned links has state BROKEN.
C3_PassedIffNoBroken ==
    phase = "returned" =>
        (returned.passed <=>
            \A i \in 1..Len(returned.links) : returned.links[i].state # "BROKEN")

\* Completed runs with several links: one that passed, seen from a run that
\* returned passed with three links or more.
C3_Witness ==
    /\ phase = "returned"
    /\ returned.passed
    /\ Len(returned.links) >= 3

\* Whether the skip specification matches the href: a pattern of the array
\* matches it, or the predicate resolves true on it.
MatchedBySkip(h) ==
    /\ options.linksToSkip.type \in {"array", "function"}
    /\ \E i \in 1..Len(options.linksToSkip.patterns) :
          RegExpTest(options.linksToSkip.patterns[i], h)
    /\ ~\E i \in 1..Len(options.linksToSkip.rejects) :
          RegExpTest(options.linksToSkip.rejects[i], h)

\* C4: an http(s) URL matched by the skip specification is recorded with
\* state SKIPPED and status 0, at most once, is never requested and never
\* scanned for links.
C4_SkippedHasStatusZero ==
    \A h \in cache :
        (IsHttp(h) /\ MatchedBySkip(h)) =>
            /\ Count(h) <= 1
            /\ \A i \in ResultsFor(h) :
                  results[i].state = "SKIPPED" /\ results[i].status = 0
            /\ Requested(h, "GET") = 0 /\ Requested(h, "HEAD") = 0
            /\ h \notin scanned

\* What does hold of a URL matched by the skip specification: it is recorded
\* SKIPPED at most once, without a status, never requested, never scanned.
SkippedHasNoStatus ==
    \A h \in cache :
        (IsHttp(h) /\ MatchedBySkip(h)) =>
            /\ Count(h) <= 1
            /\ \A i \in ResultsFor(h) :
                  results[i].state = "SKIPPED" /\ results[i].status = NoStatus
            /\ Requested(h, "GET") = 0 /\ Requested(h, "HEAD") = 0
            /\ h \notin scanned

\* C5: a URL whose scheme is neither http nor https is recorded, as soon as
\* it is touched, exactly once with state SKIPPED and status 0; it is never
\* requested, never scanned, and the skip specification is not consulted on
\* it, whatever it contains.
C5_NonHttpSkipped ==
    \A h \in cache :
        ~IsHttp(h) =>
            /\ Count(h) = 1
            /\ \A i \in ResultsFor(h) :
                  results[i].state = "SKIPPED" /\ results[i].status = 0
            /\ Requested(h, "GET") = 0 /\ Requested(h, "HEAD") = 0
            /\ h \notin consulted
            /\ h \notin scanned

\* A mailto: link was visited in a run whose skip specification (the array,
\* or the predicate) has a pattern matching it.
C5_Witness ==
    \E h \in cache :
        /\ ~IsHttp(h)
        /\ MatchedBySkip(h)
        /\ Count(h) = 1

\* Whether the href is an http(s) URL on another host than the target's.
OffHost(h) == IsHttp(h) /\ ParseURL(h).host # RootURL.host

\* C6: a URL on another host than the target's is probe-only: its first
\* request is a HEAD (a GET follows only a 405), its body is never handed to
\* the link extractor and no LinkResult has it as parent; it is classified
\* all the same: one LinkResult once its request is answered, never two.
C6_NoRecursionOffHost ==
    Started =>
        \A h \in cache :
            OffHost(h) =>
                /\ h \notin scanned
                /\ \A i \in 1..Len(results) : results[i].parent # h
                /\ Requested(h, "HEAD") <= 1
                /\ Requested(h, "GET") <=
                      (IF [status |-> 405, html |-> FALSE] \in Answered(h, "HEAD")
                       THEN 1 ELSE 0)
                /\ Count(h) <= 1
                /\ (Answered(h, "GET") # {} \/ Answered(h, "HEAD") \ {[status |-> 405, html |-> FALSE]} # {})
                      => Count(h) = 1

\* With recursion enabled, a URL that starts with the target string but is
\* on another host answered its HEAD with an HTML page and has its result.
C6_Witness ==
    /\ Started /\ options.recurse
    /\ \E h \in cache :
          /\ OffHost(h)
          /\ StartsWith(h, options.path)
          /\ [status |-> 200, html |-> TRUE] \in Answered(h, "HEAD")
          /\ Count(h) = 1

\* C7: every task queued or running for a child has the LinkResult of its
\* parent in the results already, and every LinkResult with a parent comes
\* after the LinkResult of that parent.
C7_ParentRecordedFirst ==
    /\ \A t \in running \cup {queue[i] : i \in 1..Len(queue)} :
          t.parent # NoParent => Count(t.parent) >= 1
    /\ \A i \in 1..Len(results) :
          results[i].parent # NoParent =>
              \E j \in 1..(i - 1) : results[j].url = results[i].parent

\* Tasks of children are held in the queue while results of other children
\* are already recorded.
C7_Witness ==
    /\ Len(queue) > 0
    /\ \E i \in 1..Len(results) : results[i].parent # NoParent
    /\ \E i \in 1..Len(queue) : queue[i].parent # NoParent

\* C8: a HEAD answered 405 is followed by exactly one GET for the URL, and
\* the URL has no LinkResult until the GET is answered, then exactly one,
\* with the status of the GET's answer, OK if it is 2xx and BROKEN otherwise.
C8_RetryOnce ==
    \A h \in cache :
        [status |-> 405, html |-> FALSE] \in Answered(h, "HEAD") =>
            /\ Requested(h, "HEAD") = 1
            /\ Requested(h, "GET") = 1
            /\ Answered(h, "GET") = {} => Count(h) = 0
            /\ \A res \in Answered(h, "GET") :
                  /\ Count(h) = 1
                  /\ \A i \in ResultsFor(h) :
                        /\ results[i].status = res.status
                        /\ results[i].state =
                              (IF res.status >= 200 /\ res.status < 300
                               THEN "OK" ELSE "BROKEN")

\* A HEAD was answered 405, the retry 200, and the URL is recorded OK.
C8_Witness ==
    \E h \in cache :
        /\ [status |-> 405, html |-> FALSE] \in Answered(h, "HEAD")
        /\ \E res \in Answered(h, "GET") : res.status = 200
        /\ \E i \in ResultsFor(h) : results[i].state = "OK"

\* Whether the page at href h was fetched to be scanned and came back as HTML.
ScannablePage(h) ==
    /\ h = Href(RootURL) \/ ShouldCrawl(options, ParseURL(h))
    /\ \E res \in Answered(h, "GET") : res.status \notin {0, 405} /\ res.html

\* C9: a 'link' listener that throws does not interrupt the crawl: every
\* page recorded and fetched as HTML for scanning has its links extracted,
\* and when check() returns every discovered URL has its LinkResult, as in a
\* run whose listener does not throw.
C9_ThrowingSubscriberIsolated ==
    (Started /\ options.linksToSkip.rejects = << >>) =>
        /\ \A h \in cache : (Count(h) = 1 /\ ScannablePage(h)) => h \in scanned
        /\ phase = "returned" => \A h \in Discovered : Count(h) = 1

\* C10: a crawl task that throws because the skip predicate rejects does not
\* bring the run down: the process goes on, and check() returns only when
\* every other task has run to its end.
C10_TaskErrorIsolated ==
    (Started /\ subscriber = {}) =>
        /\ phase # "crashed"
        /\ phase = "returned" => running = {} /\ Len(queue) = 0

\* The concurrency limit the caller configured, 100 when none is configured.
ConfiguredLimit ==
    IF options.concurrency = 0 THEN DefaultConcurrency ELSE options.concurrency

\* C11: at every moment the number of crawl tasks in flight is at most the
\* configured concurrency limit (100 when none is configured), and a task is
\* held in the queue only while the limit is reached.
C11_ConcurrencyBounded ==
    ConfiguredLimit >= 1 =>
        /\ Cardinality(running) <= ConfiguredLimit
        /\ Len(queue) > 0 => Cardinality(running) = ConfiguredLimit

\* Under a limit of one, a task is in flight and two more are held.
C11_Witness ==
    /\ options.concurrency = 1
    /\ Cardinality(running) = 1
    /\ Len(queue) >= 2

\* Whether the sequence s is the beginning of the sequence t.
IsPrefix(s, t) == Len(s) <= Len(t) /\ SubSeq(t, 1, Len(s)) = s

\* C12: every LinkResult is emitted as one 'link' event at the moment it is
\* appended, so at every moment the events a listener attached before the run
\* has seen are the results in order; and results only grows at its end: no
\* step removes, reorders or modifies a record.
C12_EmittedAsAppended ==
    /\ [](events = results)
    /\ [][IsPrefix(results, results')]_vars

\* check() has returned after a run that recorded results of all three
\* states, each seen by the listener.
C12_Witness ==
    /\ phase = "returned"
    /\ events = results
    /\ \A s \in {"OK", "BROKEN", "SKIPPED"} :
          \E i \in 1..Len(results) : results[i].state = s

\* C13: the static server check() started is torn down exactly once on every
\* way out of check(), a rejection included, and never while a task is still
\* queued or in flight.
C13_ServerTornDownOnce ==
    httpServer # "none" =>
        /\ destroyed <= 1
        /\ destroyed > 0 => running = {} /\ Len(queue) = 0
        /\ phase \in {"returned", "rejected"} => destroyed = 1

\* The hrefs of the tasks held in the queue, in order.
QueuedHrefs == [i \in 1..Len(queue) |-> Href(queue[i].url)]

\* C14: a URL whose task has been submitted is not submitted again: at most
\* one crawl task is ever submitted to the queue per distinct URL, and the
\* queue never holds two tasks for the same URL.
C14_OneTaskPerURL ==
    /\ \A h \in BagToSet(submitted) : CopiesIn(h, submitted) <= 1
    /\ \A i, j \in 1..Len(queue) : QueuedHrefs[i] = QueuedHrefs[j] => i = j

\* The run as a function of its fixed inputs (the options other than the
\* concurrency, the listener, the link graph and the servers' answers),
\* computed without any queue or interleaving.

\* The answer of the server to a request for h (status 0 when it has not
\* given one).
AnswerTo(h, method) ==
    IF Answered(h, method) = {} THEN [status |-> 0, html |-> FALSE]
    ELSE CHOOSE res \in Answered(h, method) : TRUE

\* Whether the skip predicate rejects on h.
PredicateRejects(h) ==
    \E i \in 1..Len(options.linksToSkip.rejects) :
        RegExpTest(options.linksToSkip.rejects[i], h)

\* Whether h is to be fetched for scanning.
ToBeScanned(h) == h = Href(RootURL) \/ ShouldCrawl(options, ParseURL(h))

\* The answer h is classified by: the answer to its first request, or to the
\* GET that follows a 405.
FinalAnswer(h) ==
    LET first == AnswerTo(h, IF ToBeScanned(h) THEN "GET" ELSE "HEAD")
    IN IF first.status = 405 THEN AnswerTo(h, "GET") ELSE first

\* The (url, state) pair a visited h is recorded with, if any.
OutcomeOf(h) ==
    IF ~IsHttp(h) THEN {<<h, "SKIPPED">>}
    ELSE IF PredicateRejects(h) THEN {}
    ELSE IF MatchedBySkip(h) THEN {<<h, "SKIPPED">>}
    ELSE IF FinalAnswer(h).status >= 200 /\ FinalAnswer(h).status < 300
    THEN {<<h, "OK">>}
    ELSE {<<h, "BROKEN">>}

\* The links of the page at h that its loop gets to: all of them, or those
\* up to the first unresolvable link on whose result the listener throws.
LinksReached(h) ==
    LET links == getLinks(Body(ParseURL(h)), ParseURL(h))
        stops == {i \in 1..Len(links) :
                     links[i].url = NoURL /\ links[i].link \in subscriber}
        last == IF stops = {} THEN Len(links)
                ELSE CHOOSE i \in stops : \A j \in stops : i <= j
    IN {links[i] : i \in 1..last}

\* The links a visited h contributes: none unless h is fetched for scanning,
\* answered as HTML, and the listener takes its result.
LinksFrom(h) ==
    IF /\ OutcomeOf(h) \cap {<<h, "OK">>, <<h, "BROKEN">>} # {}
       /\ ToBeScanned(h)
       /\ FinalAnswer(h).status # 0 /\ FinalAnswer(h).html
       /\ h \notin subscriber
    THEN LinksReached(h)
    ELSE {}

\* The URLs visited: the least set holding the root and the resolvable links
\* of every visited page.
RECURSIVE VisitedFrom(_)
VisitedFrom(seen) ==
    LET more == seen \cup {Href(l.url) : l \in {k \in UNION {LinksFrom(h) : h \in seen} :
                                                   k.url # NoURL}}
    IN IF more = seen THEN seen ELSE VisitedFrom(more)

\* The (url, state) pairs of the run.
ExpectedPairs ==
    LET visited == VisitedFrom({Href(RootURL)})
    IN UNION {OutcomeOf(h) : h \in visited}
       \cup {<<l.link, "BROKEN">> : l \in {k \in UNION {LinksFrom(h) : h \in visited} :
                                               k.url = NoURL}}

FinalPairs == {<<returned.links[i].url, returned.links[i].state>> :
                  i \in 1..Len(returned.links)}

\* C15: the set of (url, state) pairs in the results check() returns is
\* determined by the link graph, the servers' answers and the options other
\* than the concurrency limit: it is the same whatever the limit and however
\* the tasks interleave.
C15_OutcomeIndependentOfSchedule ==
    phase = "returned" => FinalPairs = ExpectedPairs

\* check() has returned from a run under a limit of one in which a URL was
\* submitted twice and two pages were scanned.
C15_Witness ==
    /\ phase = "returned"
    /\ options.concurrency = 1
    /\ \E h \in BagToSet(submitted) : CopiesIn(h, submitted) > 1
    /\ Cardinality(scanned) >= 2
    /\ Cardinality(FinalPairs) >= 4

\* C16: once the crawl has begun it terminates: check() eventually returns,
\* every request and every call of the skip predicate being answered.
C16_CrawlTerminates == (phase = "crawling") ~> (phase = "returned")

\* What does hold: the crawl ends, by check() returning or by the process
\* ending on an unhandled rejection.
TerminatesOrCrashes == (phase = "crawling") ~> (phase \in {"returned", "crashed"})

\* In the runs in which no task throws, the crawl ends by check() returning.
TerminatesWhenNoTaskThrows ==
    (phase = "crawling" /\ subscriber = {} /\ options.linksToSkip.rejects = << >>)
        ~> (phase = "returned")

\* C17: with recursion disabled only the root is scanned for links: the root
\* is requested with GET and never with HEAD, every other URL is requested
\* with GET only after its HEAD was answered 405 and is never scanned, and
\* every LinkResult's parent is absent or the root.
C17_NoRecursionScansRootOnly ==
    (Started /\ ~options.recurse) =>
        /\ scanned \subseteq {Href(RootURL)}
        /\ Requested(Href(RootURL), "HEAD") = 0
        /\ Href(RootURL) \in scanned => Requested(Href(RootURL), "GET") = 1
        /\ \A h \in cache \ {Href(RootURL)} :
              Requested(h, "GET") > 0 =>
                  /\ Requested(h, "HEAD") = 1
                  /\ [status |-> 405, html |-> FALSE] \in Answered(h, "HEAD")
        /\ \A i \in 1..Len(results) :
              results[i].parent \in {NoParent, Href(RootURL)}

\* check() has returned from a run without recursion in which the root was
\* scanned and a page under the target, on its host, was probed with HEAD.
C17_Witness ==
    /\ phase = "returned"
    /\ ~options.recurse
    /\ scanned = {Href(RootURL)}
    /\ \E h \in cache \ {Href(RootURL)} :
          /\ IsHttp(h) /\ ~OffHost(h) /\ StartsWith(h, options.path)
          /\ Requested(h, "HEAD") = 1
          /\ Count(h) = 1
    /\ \E i \in 1..Len(results) : results[i].parent = Href(RootURL)

\* The links extracted from the page at href h, in order.
Extracted(h) == getLinks(Body(ParseURL(h)), ParseURL(h))

\* What the code does with an unresolvable link l of the scanned page h: it
\* is recorded BROKEN with status 0 and parent h, never requested, never
\* submitted, and the cache is neither asked for it nor holds it.
UnresolvableRecorded(h, l) ==
    /\ \E i \in 1..Len(results) :
          results[i] = [url |-> l, status |-> 0, state |-> "BROKEN", parent |-> h]
    /\ Requested(l, "GET") = 0 /\ Requested(l, "HEAD") = 0
    /\ ~BagIn(l, submitted)
    /\ l \notin looked /\ l \notin cache

\* C18: an extracted link that cannot be resolved is recorded, as its page
\* is scanned, BROKEN with status 0 and the page as parent, with no request,
\* no task and no use of the cache; and the links after it on the page are
\* still processed: the cache is asked for each of them.
C18_UnresolvableLinkRecorded ==
    \A h \in scanned :
        \A i \in 1..Len(Extracted(h)) :
            Extracted(h)[i].url = NoURL =>
                /\ UnresolvableRecorded(h, Extracted(h)[i].link)
                /\ \A j \in (i + 1)..Len(Extracted(h)) :
                      Extracted(h)[j].url # NoURL =>
                          Href(Extracted(h)[j].url) \in looked

\* The part that holds in every run: the record, and no request, task or
\* use of the cache for the link.
UnresolvableLinkNeverVisited ==
    \A h \in scanned :
        \A i \in 1..Len(Extracted(h)) :
            Extracted(h)[i].url = NoURL =>
                UnresolvableRecorded(h, Extracted(h)[i].link)

NetworkError == [status |-> 0, html |-> FALSE]

\* Whether the first request for h failed with a network error.
FirstRequestFailed(h) ==
    NetworkError \in Answered(h, IF ToBeScanned(h) THEN "GET" ELSE "HEAD")

\* Whether the HEAD for h was answered 405 and the GET that followed failed.
RetryFailed(h) ==
    /\ ~ToBeScanned(h)
    /\ [status |-> 405, html |-> FALSE] \in Answered(h, "HEAD")
    /\ NetworkError \in Answered(h, "GET")

\* A step that records the failure of a request: one result is appended, for
\* a visited URL, BROKEN with status 0.
RecordsFailure ==
    /\ Len(results') = Len(results) + 1
    /\ results'[Len(results')].url \in cache
    /\ results'[Len(results')].state = "BROKEN"
    /\ results'[Len(results')].status = 0

\* The failure touches nothing but its own task: nothing is queued, started,
\* dropped or marked, check() goes on, and crawl returns normally for the
\* task unless the listener throws on its result.
FailureContained ==
    LET h == results'[Len(results')].url
    IN /\ queue' = queue /\ cache' = cache /\ submitted' = submitted
       /\ phase' = phase /\ idle' = idle /\ requests' = requests
       /\ {t.id : t \in running'} = {t.id : t \in running}
       /\ \A t \in running : Href(t.url) # h => t \in running'
       /\ \A t \in running' :
             Href(t.url) = h =>
                 t.pc = (IF h \in subscriber THEN "threw" ELSE "returned")

\* C19: a request that fails with a network error is recorded exactly once,
\* BROKEN with status 0, and is not attempted again; the failure does not
\* make check() reject and leaves every other task and URL as it was, so the
\* other URLs are still visited.
C19_NetworkErrorRecordedOnce ==
    /\ [](\A h \in cache :
             (FirstRequestFailed(h) \/ RetryFailed(h)) =>
                 /\ Count(h) = 1
                 /\ \A i \in ResultsFor(h) :
                       results[i].state = "BROKEN" /\ results[i].status = 0
                 /\ Requested(h, "GET") + Requested(h, "HEAD") =
                       (IF RetryFailed(h) THEN 2 ELSE 1)
                 /\ phase # "rejected")
    /\ [][RecordsFailure => FailureContained]_vars

\* check() has returned from a run in which a request failed, for a child of
\* the root, and a URL submitted after it was recorded after it.
C19_Witness ==
    /\ phase = "returned"
    /\ \E h \in cache :
          /\ FirstRequestFailed(h) \/ RetryFailed(h)
          /\ h # Href(RootURL)
          /\ \E i \in ResultsFor(h) : i < Len(results)

\* C20: check() does not mutate the options object the caller passed: when
\* check() is over, every field has the value it had at the call.
C20_OptionsNotMutated ==
    phase \in {"returned", "rejected"} => options = given

\* What does hold: the fields other than path and linksToSkip are as passed,
\* and so is the path of a target given as a URL.
OtherOptionsNotMutated ==
    /\ options.port = given.port
    /\ options.concurrency = given.concurrency
    /\ options.recurse = given.recurse
    /\ StartsWithHttp(given.path) => options.path = given.path
    /\ given.linksToSkip.type # "undefined" => options.linksToSkip = given.linksToSkip

\* Whether some LinkResult or task names h as the page it was found on.
HasChildren(h) ==
    \/ \E i \in 1..Len(results) : results[i].parent = h
    \/ \E t \in running \cup {queue[i] : i \in 1..Len(queue)} : t.parent = h

\* A recorded page that was not fetched for scanning, whose request failed or
\* whose content type is not HTML, is never scanned and never has children.
NoChildrenUnlessHtml ==
    \A h \in cache :
        ~ScannablePage(h) => h \notin scanned /\ ~HasChildren(h)

\* C21: whether a page's links are extracted depends only on the scan flag
\* and the content type of its response: a recorded page fetched for scanning
\* and answered as HTML has its links extracted, whatever its status, and all
\* of them are visited by the time check() returns; any other page is never
\* scanned and never has children.
C21_ExtractionByFlagAndContentType ==
    Started =>
        /\ \A h \in cache :
              (Count(h) = 1 /\ ScannablePage(h)) =>
                  /\ h \in scanned
                  /\ phase = "returned" => LinksOf(h) \subseteq cache
        /\ NoChildrenUnlessHtml

\* In the runs whose listener does not throw, the whole of it holds.
ExtractionWhenListenerQuiet ==
    subscriber = {} => C21_ExtractionByFlagAndContentType

\* A page answered 404 as HTML was scanned and a link of it recorded.
BrokenPageScanned ==
    \E h \in scanned :
        /\ \E i \in ResultsFor(h) : results[i].state = "BROKEN"
        /\ HasChildren(h)

MethodNotAllowed == [status |-> 405, html |-> FALSE]

\* The number of requests sent for h.
RequestsFor(h) == Requested(h, "GET") + Requested(h, "HEAD")

\* C22: each URL receives at most two requests; the second is sent only
\* after the first was answered 405 and is a GET; a URL that is not http(s)
\* or is matched by the skip specification receives none, and so does a
\* task whose URL is already in the cache: however often a URL is submitted,
\* its requests are those of one task.
C22_AtMostTwoRequests ==
    \A h \in cache :
        /\ RequestsFor(h) <= 2
        /\ Requested(h, "HEAD") <= 1
        /\ ToBeScanned(h) =>
              /\ Requested(h, "HEAD") = 0
              /\ Requested(h, "GET") = 2 => MethodNotAllowed \in Answered(h, "GET")
        /\ (~ToBeScanned(h) /\ Requested(h, "GET") > 0) =>
              /\ Requested(h, "GET") = 1 /\ Requested(h, "HEAD") = 1
              /\ MethodNotAllowed \in Answered(h, "HEAD")
        /\ (~IsHttp(h) \/ MatchedBySkip(h)) => RequestsFor(h) = 0

\* check() has returned from a run in which a URL submitted twice was
\* requested once, another was requested twice, and a skipped one never.
C22_Witness ==
    /\ phase = "returned"
    /\ \E h \in cache : CopiesIn(h, submitted) >= 2 /\ RequestsFor(h) = 1
    /\ \E h \in cache : RequestsFor(h) = 2
    /\ \E h \in cache : (~IsHttp(h) \/ MatchedBySkip(h)) /\ Count(h) = 1

====
